---- MODULE Spec2Model ----
(***************************************************************************)
(* A model of the kemono synchronisation engine (src/lib.rs, src/main.rs): *)
(* paginated enumeration of a creator's posts (all_posts), the per-post    *)
(* metadata write and attachment extraction of do_download, and the        *)
(* parallel batch of download_content tasks with its 429 short-circuit.    *)
(*                                                                         *)
(* Strings are sequences of one-character strings, so that replace, split, *)
(* contains and starts_with are computed as the code computes them.        *)
(* Option<T> is a sequence of length at most one: None is <<>>.            *)
(***************************************************************************)
EXTENDS Naturals, Integers, Sequences, FiniteSets, TLC

\* ------------------------------------------------------------------ bounds
\* do_download / do_query invocations in one behaviour
MaxRuns == 2
\* largest value of cli.threads that is explored
MaxThreads == 2
\* pages of the synthetic page sequences of SpecPages
MaxPages == 3
\* posts per page of the synthetic page sequences of SpecPages
MaxPageLen == 2
\* dot-delimited segments of the file names given to get_mkv_filename in SpecMkv
MaxSegments == 3
\* logical CPUs of the machine: the size rayon gives a pool built with
\* num_threads(0)
NumCpus == 2

\* ------------------------------------------------------------ Option<T>
None == <<>>
Some(x) == <<x>>
is_some(o) == o # <<>>
is_none(o) == o = <<>>
unwrap(o) == o[1]

\* ----------------------------------------------------------- strings
RECURSIVE replace(_, _, _)
\* str::replace(from, to) for a one-character pattern
replace(s, from, to) ==
    IF s = <<>> THEN <<>>
    ELSE (IF Head(s) = from THEN to ELSE <<Head(s)>>) \o replace(Tail(s), from, to)

RECURSIVE split(_, _)
\* str::split(sep): the segments between separators; "" gives one empty segment
split(s, sep) ==
    IF \A i \in 1..Len(s) : s[i] # sep THEN <<s>>
    ELSE LET i == CHOOSE j \in 1..Len(s) :
                     s[j] = sep /\ \A k \in 1..(j - 1) : s[k] # sep
         IN  <<SubSeq(s, 1, i - 1)>> \o split(SubSeq(s, i + 1, Len(s)), sep)

\* str::contains(pattern)
contains(s, pat) ==
    \E i \in 0..Len(s) :
        i + Len(pat) <= Len(s) /\ SubSeq(s, i + 1, i + Len(pat)) = pat

\* str::starts_with(char)
starts_with(s, c) == Len(s) > 0 /\ s[1] = c

mp4 == <<"m", "p", "4">>
m4v == <<"m", "4", "v">>
mkv == <<"m", "k", "v">>

\* a replacement of mp4 parts alone
mkv_part_mp4_only(part) == IF part = mp4 THEN mkv ELSE part

\* the replacement of one dot-delimited part (lib.rs 304-308)
mkv_part(part) == IF part = mp4 \/ part = m4v THEN mkv ELSE part

RECURSIVE mkv_join(_, _)
\* the loop of get_mkv_filename over the parts, `first` as in the code
mkv_join(parts, first) ==
    IF parts = <<>> THEN <<>>
    ELSE (IF ~first THEN <<".">> ELSE <<>>)
           \o mkv_part(Head(parts)) \o mkv_join(Tail(parts), FALSE)

get_mkv_filename(name) == mkv_join(split(name, "."), TRUE)

\* segments of the file names given to get_mkv_filename in SpecMkv
Segments ==
    {mp4, m4v, mkv, <<>>, <<"t", "e", "s", "t">>, <<"m", "p", "4", "x">>}

RECURSIVE JoinDots(_)
\* the file name with the given dot-delimited segments
JoinDots(q) ==
    IF Len(q) = 1 THEN q[1]
    ELSE JoinDots(SubSeq(q, 1, Len(q) - 1)) \o <<".">> \o q[Len(q)]

\* ------------------------------------------------------- data (lib.rs 27-50)
\* Attachment { name: Option<String>, path: Option<String> }
Attachment(name, path) == [name |-> name, path |-> path]

\* Post: the fields this engine reads (id, published, file, attachments) and
\* one field standing for the rest of the record (title)
Post(id, title, published, file, attachments) ==
    [id |-> id, title |-> title, published |-> published,
     file |-> file, attachments |-> attachments]

v_mp4 == <<"v", ".", "m", "p", "4">>
w_mp4_mp4 == <<"w", ".", "m", "p", "4", ".", "m", "p", "4">>
a_jpg == <<"a", ".", "j">>
v_mp4_jpg == <<"v", ".", "m", "p", "4", ".", "j">>
v_mkv_jpg == <<"v", ".", "m", "k", "v", ".", "j">>

attVideo == Attachment(Some(v_mp4), Some(<<"/", "f">>))
attVideoRel == Attachment(Some(v_mp4), Some(<<"g">>))
attDouble == Attachment(Some(w_mp4_mp4), Some(<<"/", "h">>))
attNoName == Attachment(None, Some(<<"/", "h">>))
attNoPath == Attachment(Some(a_jpg), None)
attEmpty == Attachment(None, None)

\* two posts with the same published timestamp and the same attachment name,
\* under different ids and server paths
Post6 == Post(6, "a", <<"1", ":", "0">>, attVideo, None)
Post7 == Post(7, "a", <<"1", ":", "0">>, attVideoRel, None)

\* upstream records, as the JSON arrays of the API carry them: attachments is
\* a JSON array (duplicates possible) or absent
Post1 == Post(1, "a", <<"1", ":", "0">>, attVideo, Some(<<attVideo, attVideo>>))
Post1e == Post(1, "b", <<"1", "-", "0">>, attNoName, Some(<<attVideoRel>>))
Post2 == Post(2, "a", <<"2", ":", "0">>, Attachment(Some(w_mp4_mp4), None),
              Some(<<attNoName, attDouble>>))
Post3 == Post(3, "a", <<"3", ":", "0">>, attEmpty, Some(<<attNoPath>>))
Post4 == Post(4, "a", <<"4", ":", "0">>, attEmpty, None)
Post5 == Post(5, "a", <<"5", ":", "0">>, attEmpty,
              Some(<<Attachment(Some(v_mkv_jpg), Some(<<"/", "p">>)),
                     Attachment(Some(v_mp4_jpg), Some(<<"/", "q">>))>>))

\* the page sequences the upstream may hold for the synchronised creator
Upstreams ==
    { <<>>,
      << <<Post1>> >>,
      << <<Post2>> >>,
      << <<Post1e, Post4>> >>,
      << <<Post3>>, <<Post1>> >>,
      << <<Post5>> >> }

\* the changes of the upstream between two runs, <<before, after>>: a record
\* is edited and a post added; a post is deleted; every post is deleted
UpstreamEdits ==
    { << << <<Post1>> >>, << <<Post1e, Post4>> >> >>,
      << << <<Post3>>, <<Post1>> >>, << <<Post1>> >> >>,
      << << <<Post2>> >>, <<>> >> }

\* a post without attachments, for the synthetic page sequences
PlainPost(i) == Post(i, "a", <<"0">>, attEmpty, None)

RECURSIVE SumTo(_, _)
SumTo(sizes, n) == IF n = 0 THEN 0 ELSE sizes[n] + SumTo(sizes, n - 1)

\* the page sequence with the given page sizes, posts numbered consecutively
PagesOfSizes(sizes) ==
    [p \in 1..Len(sizes) |->
        [j \in 1..sizes[p] |-> PlainPost(SumTo(sizes, p - 1) + j)]]

RECURSIVE SeqsUpTo(_, _)
SeqsUpTo(S, n) ==
    IF n = 0 THEN {<<>>}
    ELSE LET shorter == SeqsUpTo(S, n - 1)
         IN  shorter \cup {Append(q, x) : q \in {r \in shorter : Len(r) = n - 1}, x \in S}

\* page-size sequences of SpecPages: every short one and the one of the
\* pagination example
SizeSeqs == SeqsUpTo(0..MaxPageLen, MaxPages) \cup {<<50, 50, 13, 0>>}

\* the options of the command line that the engine reads (main.rs 58-82)
CliOptions ==
    [threads : 1..MaxThreads, mkvs : BOOLEAN, filename : {None, Some(<<"v">>)}]

\* ---------------------------------------------------------------- state
VARIABLES
    cli,        \* CliOpts of the process
    client,     \* the KemonoClient of main, which enumerates: session and cookies
    upstream,   \* the upstream's page sequence for the creator/service
    fs,         \* names of the files in <root>/<creator>/<service>/
    partial,    \* the files of fs whose write did not complete
    dirs,       \* existing directories: "dl" (<root>/<creator>/<service>), "metadata"
    meta,       \* metadata/<id>.json files: set of <<id, content>>
    pc,         \* "idle", "enum" (all_posts loop), "posts" (for post in ...), "batch"
    caller,     \* the command that called all_posts: "download" or "query"
    offset,     \* all_posts: offset
    posts,      \* all_posts: posts
    requests,   \* the page requests of this all_posts call: offset, and whether it got a page
    ret,        \* the value all_posts returned last
    idx,        \* do_download: position of the for loop in the post list
    files,      \* do_download: files
    tpc,        \* per task: "pending", "check", "mkv", "get", "write", "bail", "done"
    tout,       \* per task: what the task did ("" until it ends)
    tlog,       \* per task: the lines its closure wrote to the error log
    tresp,      \* per task: the path of its GET and the answer, None until it has one
    tclient,    \* per task: the KemonoClient of its closure, None until it makes one
    full,       \* the collect's short-circuit flag
    saved,      \* the collect's saved error
    result,     \* what the last command returned
    runNo,      \* number of commands started
    gets,       \* attachment GETs issued by the current run
    metaWrites, \* metadata files written by the current run
    touched,    \* fs or upstream changed from outside since the last run ended
    prev,       \* summary of the run that returned last
    tree,         \* do_update: the entries of the download root, two levels deep
    update_opts,  \* do_update: creator and service of Commands::Update
    upc,          \* do_update: "none", "creators", "services", "call", "done", "err", "panic"
    creators,     \* do_update: what is left of base_path.read_dir()
    creator_name, \* do_update: creator_name
    services,     \* do_update: what is left of creator.path().read_dir()
    target,       \* do_update: <<creator, service>> of the do_download it called
    synced,       \* do_update: its do_download calls, with what each returned
    warned,       \* do_update: the paths of its "Skipping service" lines
    disk,         \* the directories of the other creator/service pairs
    filename,     \* get_mkv_filename: filename
    new_filename  \* get_mkv_filename: the returned new_filename, None before the call

vars ==
    <<cli, client, upstream, fs, partial, dirs, meta, pc, caller, offset, posts, requests,
      ret, idx, files, tpc, tout, tlog, tresp, tclient, full, saved, result, runNo, gets,
      metaWrites,
      touched, prev, tree, update_opts, upc, creators, creator_name, services,
      target, synced, warned, disk, filename, new_filename>>

fsVars == <<fs, partial, dirs, meta>>
enumVars == <<offset, posts, requests, ret>>
batchVars == <<files, tpc, tout, tlog, tresp, tclient, full, saved>>
histVars == <<runNo, gets, metaWrites, touched, prev>>
mkvVars == <<filename, new_filename>>
updVars ==
    <<tree, update_opts, upc, creators, creator_name, services, target, synced,
      warned, disk>>

\* a cookie jar is named by the allocation that made it: <<0, 0>> is the one
\* of KemonoClient::new, <<run, i>> the one made for item i of a run
Jar_default(run, i) == <<run, i>>

\* KemonoClient::new (lib.rs 117-126): no session, a jar of its own
KemonoClient_new == [session |-> None, cookies |-> Jar_default(0, 0)]

InitCommon ==
    /\ client = KemonoClient_new
    /\ fs = {} /\ partial = {} /\ dirs = {} /\ meta = {}
    /\ pc = "idle" /\ caller = "none"
    /\ offset = 0 /\ posts = <<>> /\ requests = <<>> /\ ret = [tag |-> "None"]
    /\ idx = 0 /\ files = <<>> /\ tpc = <<>> /\ tout = <<>> /\ tlog = <<>> /\ tresp = <<>>
    /\ tclient = <<>>
    /\ full = FALSE /\ saved = None
    /\ result = "none"
    /\ runNo = 0 /\ gets = 0 /\ metaWrites = 0 /\ touched = FALSE
    /\ prev = [result |-> "none", clean |-> FALSE, wrote |-> FALSE]
    /\ upc = "none" /\ creators = {} /\ creator_name = "" /\ services = {}
    /\ target = <<>> /\ synced = <<>> /\ warned = {}
    /\ new_filename = None

\* a process that runs download or query: no update options, no tree walked
NoUpdate ==
    /\ filename = <<>>
    /\ tree = {}
    /\ update_opts = [creator |-> None, service |-> None]
    /\ disk = <<>>

Init ==
    /\ InitCommon
    /\ NoUpdate
    /\ cli \in CliOptions
    /\ upstream \in Upstreams

InitPages ==
    /\ InitCommon
    /\ NoUpdate
    /\ cli \in CliOptions
    /\ upstream \in {PagesOfSizes(s) : s \in SizeSeqs}

\* ------------------------------------------- all_posts (lib.rs 176-196)
max_per_page == 50

\* the page the upstream answers to a request with the given offset
PageAt(o) ==
    LET i == (o \div max_per_page) + 1
    IN  IF i <= Len(upstream) THEN upstream[i] ELSE <<>>

ToSet(q) == {q[i] : i \in 1..Len(q)}

\* the iteration orders of a HashSet with the given elements
Orders(S) == {q \in [1..Cardinality(S) -> S] : ToSet(q) = S}

\* a record whose attachments stay the JSON array: a Vec<Attachment>
Deserializations_vec(jp) == {jp}

\* serde's results for one record: Option<HashSet<Attachment>> collapses equal
\* entries and iterates in an order of its own
Deserializations(jp) ==
    IF is_none(jp.attachments) THEN {jp}
    ELSE {[jp EXCEPT !.attachments = Some(o)] : o \in Orders(ToSet(unwrap(jp.attachments)))}

\* res.json::<Vec<Post>>() on a page: one result per choice of iteration
\* orders for the records that have more than one
PageResults(page) ==
    LET multi == {i \in 1..Len(page) : Cardinality(Deserializations(page[i])) > 1}
        picks == {f \in [multi -> UNION {Deserializations(page[i]) : i \in multi}] :
                     \A i \in multi : f[i] \in Deserializations(page[i])}
    IN  {[i \in 1..Len(page) |->
             IF i \in multi THEN f[i]
             ELSE CHOOSE d \in Deserializations(page[i]) : TRUE] : f \in picks}

\* a loop that takes a page shorter than the page size for the last one
is_short_page(res) == Len(res) < max_per_page

\* `if res.is_empty() { break }`
is_last_page(res) == res = <<>>

\* an offset advanced by the number of posts the page returned
next_offset_by_count(o, res) == o + Len(res)

\* `offset += self.max_per_page()`
next_offset(o, res) == o + max_per_page

\* an error that hands back the posts fetched so far
posts_error_partial(kind, sofar) == [tag |-> "Ok", posts |-> sofar]

\* the Err that `?` returns from the loop
posts_error(kind, sofar) == [tag |-> "Err", kind |-> kind]

\* bookkeeping at the return of a command
EndRun(res, clean, wrote) ==
    /\ result' = res
    /\ pc' = "idle"
    /\ touched' = FALSE
    /\ prev' = [result |-> res, clean |-> clean, wrote |-> wrote]

\* what the caller of all_posts does with the returned value r: do_download's
\* `?` and for loop (main.rs 213), do_query's `?` and printing (main.rs 203-207)
Returned(r) ==
    /\ ret' = r
    /\ IF r.tag = "Err" THEN
           /\ EndRun("EnumError", FALSE, FALSE)
           /\ posts' = <<>>
           /\ idx' = 0
       ELSE IF caller = "query" THEN
           /\ EndRun("Ok", FALSE, FALSE)
           /\ posts' = r.posts
           /\ idx' = 0
       ELSE
           /\ posts' = r.posts
           /\ idx' = 1
           /\ pc' = IF r.posts = <<>> THEN "batch" ELSE "posts"
           /\ UNCHANGED <<result, touched, prev>>

\* the entry of a command: its locals, and the counters of the run
CallRun(c) ==
    /\ caller' = c
    /\ pc' = "enum"
    /\ offset' = 0 /\ posts' = <<>> /\ requests' = <<>> /\ ret' = [tag |-> "None"]
    /\ idx' = 0 /\ files' = <<>> /\ tpc' = <<>> /\ tout' = <<>> /\ tlog' = <<>>
    /\ tresp' = <<>> /\ tclient' = <<>>
    /\ full' = FALSE /\ saved' = None
    /\ result' = "none"
    /\ runNo' = runNo + 1 /\ gets' = 0 /\ metaWrites' = 0

StartRun(c) ==
    /\ pc = "idle"
    /\ runNo < MaxRuns
    /\ CallRun(c)
    /\ UNCHANGED <<cli, client, updVars, mkvVars, upstream, fsVars, touched, prev>>

\* do_download is called (main.rs 210-213)
do_download == StartRun("download")

\* do_query is called (main.rs 202-203)
do_query == StartRun("query")

\* one iteration of the loop that gets a non-empty page
all_posts_page ==
    /\ pc = "enum"
    /\ \E res \in PageResults(PageAt(offset)) :
        /\ ~is_last_page(res)
        /\ posts' = posts \o res
        /\ offset' = next_offset(offset, res)
    /\ requests' = Append(requests, [offset |-> offset, ok |-> TRUE])
    /\ UNCHANGED <<cli, client, updVars, mkvVars, upstream, fsVars, pc, caller, ret, idx,
                   batchVars, result, histVars>>

\* the iteration that gets the empty page: break, Ok(posts)
all_posts_break ==
    /\ pc = "enum"
    /\ \E res \in PageResults(PageAt(offset)) :
        /\ is_last_page(res)
        /\ Returned([tag |-> "Ok", posts |-> posts])
    /\ requests' = Append(requests, [offset |-> offset, ok |-> TRUE])
    /\ UNCHANGED <<cli, client, updVars, mkvVars, upstream, fsVars, caller, offset,
                   batchVars, runNo, gets, metaWrites>>

\* an iteration whose request fails in transport ("Reqwest") or whose body
\* does not deserialize ("Generic"): `?` returns the error
all_posts_error ==
    /\ pc = "enum"
    /\ \E kind \in {"Reqwest", "Generic"} : Returned(posts_error(kind, posts))
    /\ requests' = Append(requests, [offset |-> offset, ok |-> FALSE])
    /\ UNCHANGED <<cli, client, updVars, mkvVars, upstream, fsVars, caller, offset,
                   batchVars, runNo, gets, metaWrites>>

\* --------------------------------- do_download, the posts (main.rs 213-237)
\* a call that creates nothing
create_dir_all_noop(existing, path) == existing

\* std::fs::create_dir_all: the directories of the path exist afterwards
create_dir_all(existing, path) == existing \cup path

metadata_exists(id) == \E m \in meta : m[1] = id

\* a write without the existence test
should_write_metadata_always(id) == TRUE

\* `if !post_data_filepath.exists()`
should_write_metadata(id) == ~metadata_exists(id)

\* a test of the name alone
primary_included_name_only(file) == is_some(file.name)

\* `if post.file.name.is_some() && post.file.path.is_some()`
primary_included(file) == is_some(file.name) /\ is_some(file.path)

\* `if let Some(attachments) = post.attachments.clone()`: one entry each
additional_included(post) ==
    IF is_some(post.attachments) THEN unwrap(post.attachments) ELSE <<>>

\* the (post, attachment) pairs pushed for one post, in push order
extract(post) ==
    (IF primary_included(post.file) THEN << <<post, post.file>> >> ELSE <<>>)
        \o [i \in 1..Len(additional_included(post)) |->
                <<post, additional_included(post)[i]>>]

\* the body of `for post in ...` for posts[idx]
do_download_post ==
    /\ pc = "posts"
    /\ LET post == posts[idx]
           new == extract(post)
       IN  /\ dirs' = create_dir_all(dirs, {"dl", "metadata"})
           /\ IF should_write_metadata(post.id)
              THEN /\ meta' = {m \in meta : m[1] # post.id} \cup {<<post.id, Some(post)>>}
                   /\ metaWrites' = metaWrites + 1
              ELSE UNCHANGED <<meta, metaWrites>>
           /\ files' = files \o new
           /\ tpc' = tpc \o [i \in 1..Len(new) |-> "pending"]
           /\ tout' = tout \o [i \in 1..Len(new) |-> ""]
           /\ tlog' = tlog \o [i \in 1..Len(new) |-> <<>>]
           /\ tresp' = tresp \o [i \in 1..Len(new) |-> None]
           /\ tclient' = tclient \o [i \in 1..Len(new) |-> None]
    /\ idx' = idx + 1
    /\ pc' = IF idx = Len(posts) THEN "batch" ELSE "posts"
    /\ UNCHANGED <<cli, client, updVars, mkvVars, upstream, fs, partial, caller,
                   enumVars, full, saved, result, runNo, gets, touched, prev>>

\* the `.expect(..)` of the body panics: create_dir_all fails ("mkdir"), the
\* file cannot be created ("create"), or the write stops part-way ("write")
do_download_post_panic ==
    /\ pc = "posts"
    /\ LET post == posts[idx]
       IN  \E how \in {"mkdir", "create", "write"} :
            /\ how = "mkdir" => "metadata" \notin dirs
            /\ how # "mkdir" => should_write_metadata(post.id)
            /\ dirs' = IF how = "mkdir" THEN dirs ELSE dirs \cup {"dl", "metadata"}
            /\ meta' = IF how = "write"
                        THEN {m \in meta : m[1] # post.id} \cup {<<post.id, None>>}
                        ELSE meta
    /\ EndRun("Panic", FALSE, FALSE)
    /\ UNCHANGED <<cli, client, updVars, mkvVars, upstream, fs, partial, caller,
                   enumVars, idx, batchVars, runNo, gets, metaWrites>>

\* ------------------------------- download_content (main.rs 105-200)
\* a file name that also depends on the server path
download_filename_with_path(post, attachment) ==
    replace(post.published, ":", <<"-">>) \o <<"-">> \o unwrap(attachment.name)
        \o unwrap(attachment.path)

\* `format!("{}-{}", post.published.replace(':', "-"), name)`
download_filename(post, attachment) ==
    replace(post.published, ":", <<"-">>) \o <<"-">> \o unwrap(attachment.name)

\* the path of the request: a leading '/' is added when missing (main.rs 124-131)
attachment_path(attachment) ==
    LET ap == unwrap(attachment.path)
    IN  IF ~starts_with(ap, "/") THEN <<"/">> \o ap ELSE ap

\* an existence test of a path outside the download directory
path_exists_elsewhere(name) == FALSE

\* PathBuf::exists() of a file of the download directory
path_exists(name) == name \in fs

\* a closure without the name filter
name_filtered_never(attachment) == FALSE

\* the closure's name filter (main.rs 241-250)
name_filtered(attachment) ==
    /\ is_some(cli.filename)
    /\ is_some(attachment.name)
    /\ ~contains(unwrap(attachment.name), unwrap(cli.filename))

\* the answers of the upstream to an attachment GET: no answer (transport
\* error), or a status, with the body arriving or not
Responses ==
    {[status |-> None, body |-> FALSE]}
        \cup [status : {Some(200), Some(404), Some(429)}, body : {TRUE}]
        \cup {[status |-> Some(200), body |-> FALSE]}

\* an error_for_status that lets every status through
is_success_any(code) == TRUE

\* StatusCode::is_success, as error_for_status reads it
is_success(code) == code >= 200 /\ code < 300

\* reqwest::Error::status() of the error send/error_for_status/bytes return
error_status(resp) ==
    IF is_some(resp.status) /\ ~is_success(unwrap(resp.status)) THEN resp.status ELSE None

\* every error status taken for a rate limit
is_rate_limited_any(status) == is_some(status)

\* `status_code.as_u16() == 429` (main.rs 259-260)
is_rate_limited(status) == is_some(status) /\ unwrap(status) = 429

\* a batch that runs every item whatever the flag
may_dispatch_always(flag) == TRUE

\* rayon's check of the short-circuit flag before it runs the next item
may_dispatch(flag) == ~flag

\* a pool in which the calling thread runs items as well
num_threads_and_caller(n) == n + 1

\* the workers of the global pool, ThreadPoolBuilder::num_threads(cli.threads)
\* (main.rs 438-441): rayon sizes the pool itself when the number is 0
num_threads(n) == IF n = 0 THEN NumCpus ELSE n

InFlight == {i \in 1..Len(files) : tpc[i] \notin {"pending", "done"}}
Started == {i \in 1..Len(files) : tpc[i] # "pending"}

\* the Err variant download_content returns for an outcome: String errors
\* become Generic (errors.rs 35-39), reqwest errors Reqwest (errors.rs 23-27)
error_kind(what) ==
    IF what \in {"noname", "nopath", "mkdirfail", "writefail"} THEN "Generic"
    ELSE IF what \in {"status", "s429", "body", "transport"} THEN "Reqwest"
    ELSE "Ok"

\* the error-log lines of the closure for an outcome (main.rs 254-272): a
\* Reqwest error with a status is logged only when the status is 429, and
\* then without the attachment
closure_log(what, attachment) ==
    IF error_kind(what) = "Reqwest" THEN
        IF what \in {"status", "s429"} THEN
            IF what = "s429"
            THEN << [msg |-> "Got rate limited, bailing for now!", attachment |-> None] >>
            ELSE <<>>
        ELSE << [msg |-> "Failed to download", attachment |-> Some(attachment)] >>
    ELSE IF error_kind(what) = "Generic"
    THEN << [msg |-> "Failed to download", attachment |-> Some(attachment)] >>
    ELSE <<>>

Finish(i, what) ==
    /\ tpc' = [tpc EXCEPT ![i] = "done"]
    /\ tout' = [tout EXCEPT ![i] = what]
    /\ tlog' = [tlog EXCEPT ![i] = closure_log(what, files[i][2])]

\* a validation that skips the attachment without an error
validate_silent(attachment) ==
    IF is_none(attachment.name) \/ is_none(attachment.path) THEN "skipped" ELSE "ok"

\* the name and path tests of download_content (main.rs 111-123)
validate(attachment) ==
    IF is_none(attachment.name) THEN "noname"
    ELSE IF is_none(attachment.path) THEN "nopath"
    ELSE "ok"

\* a new_from whose client takes the cookie jar of the client it is made from
new_from_shared_jar(c, jar) == [session |-> c.session, cookies |-> c.cookies]

\* KemonoClient::new_from (lib.rs 65-74): the session field is cloned, the
\* jar is a new one
new_from(c, jar) == [session |-> c.session, cookies |-> jar]

\* KemonoClient::new_session (lib.rs 84-93): a new blocking Client, named by
\* id, whose cookie provider is the jar of the client it is built for
new_session(c, id) ==
    [c EXCEPT !.session = Some([id |-> id, cookie_provider |-> c.cookies])]

\* a worker takes item i: the filter, new_from, and the name/path validation
dispatch(i) ==
    /\ pc = "batch"
    /\ tpc[i] = "pending"
    /\ may_dispatch(full)
    /\ Cardinality(InFlight) < num_threads(cli.threads)
    /\ LET attachment == files[i][2]
       IN  IF name_filtered(attachment)
           THEN /\ Finish(i, "filtered")
                /\ UNCHANGED tclient
           ELSE /\ tclient' = [tclient EXCEPT
                                  ![i] = Some(new_from(client, Jar_default(runNo, i)))]
                /\ IF validate(attachment) # "ok" THEN Finish(i, validate(attachment))
                   ELSE /\ tpc' = [tpc EXCEPT ![i] = "check"]
                        /\ UNCHANGED <<tout, tlog>>
    /\ UNCHANGED <<cli, client, updVars, mkvVars, upstream, fsVars, pc, caller, enumVars,
                   idx, files, tresp, full, saved, result, histVars>>

\* `if download_path.exists() { return Ok(()) }`
check_exists(i) ==
    /\ pc = "batch"
    /\ tpc[i] = "check"
    /\ IF path_exists(download_filename(files[i][1], files[i][2]))
       THEN Finish(i, "exists")
       ELSE /\ tpc' = [tpc EXCEPT ![i] = IF cli.mkvs THEN "mkv" ELSE "get"]
            /\ UNCHANGED <<tout, tlog>>
    /\ UNCHANGED <<cli, client, updVars, mkvVars, upstream, fsVars, pc, caller, enumVars,
                   idx, files, tclient, tresp, full, saved, result, histVars>>

\* `if cli.mkvs { ... if full_mkv_path.exists() { return Ok(()) } }`
check_mkv(i) ==
    /\ pc = "batch"
    /\ tpc[i] = "mkv"
    /\ IF path_exists(get_mkv_filename(download_filename(files[i][1], files[i][2])))
       THEN Finish(i, "mkv")
       ELSE /\ tpc' = [tpc EXCEPT ![i] = "get"]
            /\ UNCHANGED <<tout, tlog>>
    /\ UNCHANGED <<cli, client, updVars, mkvVars, upstream, fsVars, pc, caller, enumVars,
                   idx, files, tclient, tresp, full, saved, result, histVars>>

\* the GET and its answer (main.rs 169-189, 198): Ok data, or an error; the
\* request is sent on the session of the item's client, made first when the
\* client has none
get(i) ==
    /\ pc = "batch"
    /\ tpc[i] = "get"
    /\ gets' = gets + 1
    /\ tclient' = [tclient EXCEPT
                      ![i] = IF is_none(unwrap(@).session)
                             THEN Some(new_session(unwrap(@), <<runNo, i>>))
                             ELSE @]
    /\ \E resp \in Responses :
        /\ tresp' = [tresp EXCEPT ![i] =
                        Some([path |-> attachment_path(files[i][2]),
                              status |-> resp.status, body |-> resp.body])]
        /\ IF is_some(resp.status) /\ is_success(unwrap(resp.status)) /\ resp.body
           THEN /\ tpc' = [tpc EXCEPT ![i] = "write"]
                /\ UNCHANGED <<tout, tlog>>
           ELSE IF is_rate_limited(error_status(resp))
           THEN /\ tpc' = [tpc EXCEPT ![i] = "bail"]
                /\ UNCHANGED <<tout, tlog>>
           ELSE IF is_some(error_status(resp)) THEN Finish(i, "status")
           ELSE IF is_some(resp.status) THEN Finish(i, "body")
           ELSE Finish(i, "transport")
    /\ UNCHANGED <<cli, client, updVars, mkvVars, upstream, fsVars, pc, caller, enumVars,
                   idx, files, full, saved, result, runNo, metaWrites, touched, prev>>

\* create_dir_all when the parent is missing, then std::fs::write
\* (main.rs 191-196): it succeeds, or fails before the file is created, or
\* fails after File::create truncated it
write(i) ==
    /\ pc = "batch"
    /\ tpc[i] = "write"
    /\ LET name == download_filename(files[i][1], files[i][2])
       IN  \E how \in {"ok", "mkdir", "create", "partial"} :
            /\ how = "mkdir" => "dl" \notin dirs
            /\ dirs' = IF how = "mkdir" THEN dirs ELSE create_dir_all(dirs, {"dl"})
            /\ fs' = IF how \in {"ok", "partial"} THEN fs \cup {name} ELSE fs
            /\ partial' = IF how = "partial" THEN partial \cup {name}
                          ELSE IF how = "ok" THEN partial \ {name}
                          ELSE partial
            /\ Finish(i, IF how = "ok" THEN "written"
                         ELSE IF how = "mkdir" THEN "mkdirfail" ELSE "writefail")
    /\ UNCHANGED <<cli, client, updVars, mkvVars, upstream, meta, pc, caller, enumVars,
                   idx, files, tclient, tresp, full, saved, result, histVars>>

\* the closure returns Err(RateLimited) (main.rs 261-263); the collect saves
\* the first error and sets its flag (main.rs 276)
bail(i) ==
    /\ pc = "batch"
    /\ tpc[i] = "bail"
    /\ full' = TRUE
    /\ saved' = IF is_none(saved) THEN Some("RateLimited") ELSE saved
    /\ Finish(i, "s429")
    /\ UNCHANGED <<cli, client, updVars, mkvVars, upstream, fsVars, pc, caller, enumVars,
                   idx, files, tclient, tresp, result, histVars>>

\* a collect whose error is dropped
collect_result_dropped(err) == "Ok"

\* what do_download returns once the collect is over (main.rs 276-279)
collect_result(err) == IF is_some(err) THEN unwrap(err) ELSE "Ok"

Failed == {"status", "body", "transport", "mkdirfail", "writefail", "s429"}

\* the collect is over: no item is running and none will be started
do_download_return ==
    /\ pc = "batch"
    /\ InFlight = {}
    /\ full \/ \A i \in 1..Len(files) : tpc[i] = "done"
    /\ EndRun(collect_result(saved),
              \A i \in 1..Len(files) : tpc[i] = "done" /\ tout[i] \notin Failed,
              \E i \in 1..Len(files) : tout[i] = "written")
    /\ UNCHANGED <<cli, client, updVars, mkvVars, upstream, fsVars, caller, enumVars,
                   idx, batchVars, runNo, gets, metaWrites>>

\* ------------------------------------------------ between two runs
last_part(name) == split(name, ".")[Len(split(name, "."))]

\* the name a re-encode to mkv gives a file: the extension is replaced
transcoded(name) ==
    SubSeq(name, 1, Len(name) - Len(last_part(name))) \o mkv

Quiet == pc = "idle" /\ runNo >= 1 /\ runNo < MaxRuns /\ ~touched

\* the user re-encodes a downloaded mp4/m4v to mkv and drops the original
\* (the case of the mkvs option, main.rs 73-75)
user_transcodes ==
    /\ Quiet
    /\ \E name \in fs \ partial :
        /\ last_part(name) \in {mp4, m4v}
        /\ fs' = (fs \ {name}) \cup {transcoded(name)}
    /\ touched' = TRUE
    /\ UNCHANGED <<cli, client, updVars, mkvVars, upstream, partial, dirs, meta, pc,
                   caller, enumVars, idx, batchVars, result, runNo, gets, metaWrites,
                   prev>>

\* the user deletes a downloaded file
user_removes ==
    /\ Quiet
    /\ \E name \in fs :
        /\ fs' = fs \ {name}
        /\ partial' = partial \ {name}
    /\ touched' = TRUE
    /\ UNCHANGED <<cli, client, updVars, mkvVars, upstream, dirs, meta, pc, caller,
                   enumVars, idx, batchVars, result, runNo, gets, metaWrites, prev>>

\* the upstream's posts change
upstream_changes ==
    /\ Quiet
    /\ \E e \in UpstreamEdits : e[1] = upstream /\ upstream' = e[2]
    /\ touched' = TRUE
    /\ UNCHANGED <<cli, client, updVars, mkvVars, fsVars, pc, caller, enumVars, idx,
                   batchVars, result, runNo, gets, metaWrites, prev>>

\* ------------------------------------------- do_update (main.rs 322-409)
\* a directory entry: its path below the download root, whether it is a
\* directory, and whether its name is valid UTF-8 (to_str, main.rs 334, 357)
Dir(path) == [path |-> path, dir |-> TRUE, utf8 |-> TRUE]
File(path) == [path |-> path, dir |-> FALSE, utf8 |-> TRUE]

\* root with a/serviceX, a/serviceY, b/serviceX
ExampleTree ==
    {Dir(<<"a">>), Dir(<<"a", "serviceX">>), Dir(<<"a", "serviceY">>),
     Dir(<<"b">>), Dir(<<"b", "serviceX">>)}

\* the download roots explored: the example; files at both levels; an empty
\* root; an empty creator directory and a name that is not UTF-8
Trees ==
    { ExampleTree,
      {Dir(<<"a">>), Dir(<<"a", "serviceX">>), File(<<"a", "notes">>), File(<<"c">>)},
      {},
      {Dir(<<"b">>), Dir(<<"a">>), Dir(<<"a", "serviceX">>),
       [path |-> <<"a", "?">>, dir |-> TRUE, utf8 |-> FALSE]} }

\* the creator and service options of Commands::Update (main.rs 45-52)
UpdateOptions ==
    [creator : {None, Some("a"), Some("")}, service : {None, Some("serviceX")}]

\* what the API holds for a creator/service pair of the tree
UpdateUpstreams == { <<>>, << <<Post1>> >> }

\* CliOpts::creator() and CliOpts::service() for Commands::Update (main.rs 85-101)
cli_creator ==
    IF is_some(update_opts.creator) THEN unwrap(update_opts.creator) ELSE ""
cli_service ==
    IF is_some(update_opts.service) THEN unwrap(update_opts.service) ELSE ""

\* Path::read_dir: the entries directly below a directory
read_dir(path) ==
    {e \in tree : Len(e.path) = Len(path) + 1 /\ SubSeq(e.path, 1, Len(path)) = path}

\* DirEntry::file_name / Path::file_name
file_name(e) == e.path[Len(e.path)]

\* the creator/service directories of the tree
DirPairs ==
    {e.path : e \in {d \in tree : Len(d.path) = 2 /\ d.dir /\ Dir(<<d.path[1]>>) \in tree}}

\* a walker without a creator filter
creator_matches_any(name) == TRUE

\* the negation of the test of main.rs 336
creator_matches(name) == cli_creator = "" \/ name = cli_creator

\* the negation of the test of main.rs 365
service_matches(name) == cli_service = "" \/ cli_service = name

\* the content of <root>/<creator>/<service> as the engine's variables hold it
CurrentDir == [fs |-> fs, partial |-> partial, dirs |-> dirs, meta |-> meta]

\* do_update is called and opens the download root (main.rs 325-329)
do_update ==
    /\ pc = "idle" /\ upc = "none" /\ runNo = 0
    /\ \E io \in {"ok", "read_dir"} :
        IF io = "ok"
        THEN /\ creators' = read_dir(<<>>)
             /\ upc' = "creators"
        ELSE /\ creators' = {}
             /\ upc' = "err"
    /\ UNCHANGED <<cli, client, mkvVars, upstream, fsVars, pc, caller, enumVars, idx,
                   batchVars, result, histVars, tree, update_opts, creator_name,
                   services, target, synced, warned, disk>>

\* one iteration of `for creator in base_path.read_dir()` up to the inner
\* loop (main.rs 329-347); the lines it logs for the entry are debug! lines
\* ("Skipping .. as doesn't match ..", "Updating ..") and none is written
\* when `creator.path().is_dir()` is false
do_update_creator ==
    /\ upc = "creators"
    /\ \E e \in creators : \E io \in {"ok", "entry", "read_dir"} :
        /\ creators' = creators \ {e}
        /\ IF io = "entry" THEN
               /\ upc' = "err"
               /\ UNCHANGED <<creator_name, services>>
           ELSE IF ~e.utf8 THEN
               /\ upc' = "panic"
               /\ UNCHANGED <<creator_name, services>>
           ELSE IF ~creator_matches(file_name(e)) THEN
               UNCHANGED <<upc, creator_name, services>>
           ELSE IF e.dir THEN
               IF io = "read_dir"
               THEN /\ upc' = "err"
                    /\ creator_name' = file_name(e)
                    /\ UNCHANGED services
               ELSE /\ upc' = "services"
                    /\ creator_name' = file_name(e)
                    /\ services' = read_dir(e.path)
           ELSE
               /\ creator_name' = file_name(e)
               /\ UNCHANGED <<upc, services>>
    /\ UNCHANGED <<cli, client, mkvVars, upstream, fsVars, pc, caller, enumVars, idx,
                   batchVars, result, histVars, tree, update_opts, target, synced,
                   warned, disk>>

\* an iteration of `for service in creator.path().read_dir()` that does not
\* reach do_download (main.rs 347-372)
do_update_service_skip ==
    /\ upc = "services"
    /\ \E e \in services : \E io \in {"ok", "entry"} :
        /\ services' = services \ {e}
        /\ IF io = "entry" THEN
               /\ upc' = "err"
               /\ UNCHANGED warned
           ELSE IF ~e.dir THEN
               /\ warned' = warned \cup {e.path}
               /\ UNCHANGED upc
           ELSE IF ~e.utf8 THEN
               /\ upc' = "panic"
               /\ UNCHANGED warned
           ELSE
               /\ ~service_matches(file_name(e))
               /\ UNCHANGED <<upc, warned>>
    /\ UNCHANGED <<cli, client, mkvVars, upstream, fsVars, pc, caller, enumVars, idx,
                   batchVars, result, histVars, tree, update_opts, creators,
                   creator_name, target, synced, disk>>

\* an iteration of the inner loop that calls do_download for the pair
\* (main.rs 347-397): the engine now works on that pair's directory and API
do_update_download ==
    /\ upc = "services"
    /\ \E e \in services :
        /\ e.dir /\ e.utf8 /\ service_matches(file_name(e))
        /\ services' = services \ {e}
        /\ target' = <<creator_name, file_name(e)>>
        /\ synced' = Append(synced, [creator |-> creator_name, service |-> file_name(e),
                                     result |-> "running"])
        /\ fs' = disk[e.path].fs
        /\ partial' = disk[e.path].partial
        /\ dirs' = disk[e.path].dirs
        /\ meta' = disk[e.path].meta
    /\ upstream' \in UpdateUpstreams
    /\ upc' = "call"
    /\ CallRun("download")
    /\ UNCHANGED <<cli, client, mkvVars, touched, prev, tree, update_opts, creators,
                   creator_name, warned, disk>>

\* a call of do_download whose error is passed on with `?`
after_sync_propagate(res) ==
    IF res = "Panic" THEN "panic" ELSE IF res = "Ok" THEN "services" ELSE "err"

\* `if let Err(err) = do_download(..).await { eprintln!(..) }` (main.rs
\* 380-403): an error is printed and the inner loop goes on; a panic of
\* do_download ends the process
after_sync(res) == IF res = "Panic" THEN "panic" ELSE "services"

\* do_download has returned to do_update (main.rs 380-403)
do_update_returned ==
    /\ upc = "call" /\ pc = "idle"
    /\ synced' = [synced EXCEPT ![Len(synced)].result = result]
    /\ disk' = [disk EXCEPT ![target] = CurrentDir]
    /\ upc' = after_sync(result)
    /\ UNCHANGED <<cli, client, mkvVars, upstream, fsVars, pc, caller, enumVars, idx,
                   batchVars, result, histVars, tree, update_opts, creators,
                   creator_name, services, target, warned>>

\* the inner loop is over (main.rs 404)
do_update_services_end ==
    /\ upc = "services" /\ services = {}
    /\ upc' = "creators"
    /\ UNCHANGED <<cli, client, mkvVars, upstream, fsVars, pc, caller, enumVars, idx,
                   batchVars, result, histVars, tree, update_opts, creators,
                   creator_name, services, target, synced, warned, disk>>

\* the outer loop is over: Ok(()) (main.rs 406-408)
do_update_return ==
    /\ upc = "creators" /\ creators = {}
    /\ upc' = "done"
    /\ UNCHANGED <<cli, client, mkvVars, upstream, fsVars, pc, caller, enumVars, idx,
                   batchVars, result, histVars, tree, update_opts, creators,
                   creator_name, services, target, synced, warned, disk>>

\* ------------------------------------------------------ specifications
Next ==
    \/ do_download
    \/ all_posts_page
    \/ all_posts_break
    \/ all_posts_error
    \/ do_download_post
    \/ do_download_post_panic
    \/ \E i \in 1..Len(files) : dispatch(i)
    \/ \E i \in 1..Len(files) : check_exists(i)
    \/ \E i \in 1..Len(files) : check_mkv(i)
    \/ \E i \in 1..Len(files) : get(i)
    \/ \E i \in 1..Len(files) : write(i)
    \/ \E i \in 1..Len(files) : bail(i)
    \/ do_download_return
    \/ user_transcodes
    \/ user_removes
    \/ upstream_changes

Spec == Init /\ [][Next]_vars

\* all_posts on its own, as do_query calls it, over the synthetic page sequences
NextPages ==
    \/ do_query
    \/ all_posts_page
    \/ all_posts_break
    \/ all_posts_error

SpecPages == InitPages /\ [][NextPages]_vars

\* the update command: the tree walker, and the engine it calls for each pair
InitUpdate ==
    /\ InitCommon
    /\ cli \in {c \in CliOptions : c.threads = 1 /\ c.filename = None}
    /\ upstream = <<>>
    /\ filename = <<>>
    /\ tree \in Trees
    /\ update_opts \in UpdateOptions
    /\ disk = [p \in DirPairs |-> [fs |-> {}, partial |-> {}, dirs |-> {"dl"}, meta |-> {}]]

NextUpdate ==
    \/ do_update
    \/ do_update_creator
    \/ do_update_service_skip
    \/ do_update_download
    \/ do_update_returned
    \/ do_update_services_end
    \/ do_update_return
    \/ all_posts_page
    \/ all_posts_break
    \/ all_posts_error
    \/ do_download_post
    \/ do_download_post_panic
    \/ \E i \in 1..Len(files) : dispatch(i)
    \/ \E i \in 1..Len(files) : check_exists(i)
    \/ \E i \in 1..Len(files) : check_mkv(i)
    \/ \E i \in 1..Len(files) : get(i)
    \/ \E i \in 1..Len(files) : write(i)
    \/ \E i \in 1..Len(files) : bail(i)
    \/ do_download_return

SpecUpdate == InitUpdate /\ [][NextUpdate]_vars

\* get_mkv_filename on its own, over file names of up to MaxSegments segments
SegmentSeqs == SeqsUpTo(Segments, MaxSegments) \ {<<>>}

InitMkv ==
    /\ InitCommon
    /\ cli = [threads |-> 1, mkvs |-> TRUE, filename |-> None]
    /\ upstream = <<>>
    /\ tree = {} /\ update_opts = [creator |-> None, service |-> None] /\ disk = <<>>
    /\ filename \in {JoinDots(q) : q \in SegmentSeqs}

\* get_mkv_filename(filename) is called and returns (lib.rs 296-312)
get_mkv_filename_call ==
    /\ new_filename = None
    /\ new_filename' = Some(get_mkv_filename(filename))
    /\ UNCHANGED <<cli, client, updVars, filename, upstream, fsVars, pc, caller,
                   enumVars, idx, batchVars, result, histVars>>

NextMkv == get_mkv_filename_call

SpecMkv == InitMkv /\ [][NextMkv]_vars

\* the download command with every thread count the command line accepts,
\* 0 included
PoolUpstreams == { << <<Post5>> >>, << <<Post3>>, <<Post1>> >>, << <<Post6, Post7>> >> }

InitPool ==
    /\ InitCommon
    /\ NoUpdate
    /\ cli \in [threads : 0..MaxThreads, mkvs : BOOLEAN, filename : {None}]
    /\ upstream \in PoolUpstreams

NextPool ==
    \/ do_download
    \/ all_posts_page
    \/ all_posts_break
    \/ all_posts_error
    \/ do_download_post
    \/ do_download_post_panic
    \/ \E i \in 1..Len(files) : dispatch(i)
    \/ \E i \in 1..Len(files) : check_exists(i)
    \/ \E i \in 1..Len(files) : check_mkv(i)
    \/ \E i \in 1..Len(files) : get(i)
    \/ \E i \in 1..Len(files) : write(i)
    \/ \E i \in 1..Len(files) : bail(i)
    \/ do_download_return

SpecPool == InitPool /\ [][NextPool]_vars

\* ---------------------------------------------------------------- claims
Tasks == 1..Len(files)
DestOf(i) == download_filename(files[i][1], files[i][2])
HasDest(i) == is_some(files[i][2].name) /\ is_some(files[i][2].path)
Got429(i) == is_some(tresp[i]) /\ unwrap(tresp[i]).status = Some(429)

\* C1: a task that has fetched a destination and is about to write it (it is
\* downloading) never does so for a destination that is already written or
\* that another task is downloading at the same time.
C1_DestinationFetchedOnce ==
    \A i \in Tasks :
        tpc[i] = "write" =>
            /\ ~path_exists(DestOf(i))
            /\ \A j \in Tasks \ {i} :
                   (HasDest(j) /\ DestOf(j) = DestOf(i)) => tpc[j] # "write"

FirstEmpty ==
    CHOOSE i \in 1..(Len(upstream) + 1) :
        /\ i <= Len(upstream) => upstream[i] = <<>>
        /\ \A j \in 1..(i - 1) : upstream[j] # <<>>

RECURSIVE FirstPages(_)
\* the posts of the first k pages, in order
FirstPages(k) == IF k = 0 THEN <<>> ELSE FirstPages(k - 1) \o upstream[k]

\* C3: all_posts never requests a page after the first empty one, and when it
\* returns Ok it has made one request per non-empty page plus one and returns
\* the posts of the non-empty pages in request order; page sizes 50, 50, 13, 0
\* give 113 posts after 4 requests.
C3_StopsAtFirstEmptyPage ==
    /\ Len(requests) <= FirstEmpty
    /\ ret.tag = "Ok" =>
        /\ Len(requests) = FirstEmpty
        /\ Len(ret.posts) = Len(FirstPages(FirstEmpty - 1))
        /\ \A i \in 1..Len(ret.posts) :
               ret.posts[i] \in Deserializations(FirstPages(FirstEmpty - 1)[i])
    /\ (ret.tag = "Ok" /\ upstream = PagesOfSizes(<<50, 50, 13, 0>>)) =>
        /\ Len(ret.posts) = 113
        /\ Len(requests) = 4

C3_Witness ==
    /\ ret.tag = "Ok"
    /\ upstream = PagesOfSizes(<<50, 50, 13, 0>>)
    /\ Len(ret.posts) = 113
    /\ Len(requests) = 4

\* C4: when do_download has returned and a task of its batch got status 429,
\* it returned RateLimited.
C4_RateLimitedReturned ==
    (pc = "idle" /\ \E i \in Tasks : Got429(i)) => result = "RateLimited"

C4_Witness ==
    /\ pc = "idle" /\ result = "RateLimited"
    /\ \E i, j \in Tasks : Got429(i) /\ tout[j] = "status"

\* C5 as claimed: once a worker has got a 429 answer, no task that had not
\* started is started.
C5_NoDispatchAfter429Observed ==
    [][(pc = "batch" /\ pc' = "batch" /\ \E i \in Tasks : Got429(i))
          => Started' = Started]_vars

\* C5 as amended: once the 429 task's closure has returned Err(RateLimited)
\* and the collect has set its stop flag, no task that had not started is
\* started; only tasks started before that go on.
C5_NoDispatchAfterFlag ==
    [][(pc = "batch" /\ pc' = "batch" /\ full) => Started' = Started]_vars

C5_Witness ==
    /\ pc = "batch" /\ full
    /\ \E i, j \in Tasks : tpc[i] = "pending" /\ tpc[j] \in {"check", "get", "write"}

\* C6: a failure that is not a 429 never sets the stop flag, and a batch in
\* which no task got 429 ends with every task executed and do_download Ok.
C6_OtherFailuresDoNotAbort ==
    /\ full => \E i \in Tasks : Got429(i)
    /\ (pc = "idle" /\ result \in {"Ok", "RateLimited"}
            /\ ~\E i \in Tasks : Got429(i))
          => (result = "Ok" /\ \A i \in Tasks : tpc[i] = "done")

C6_Witness ==
    /\ pc = "idle" /\ result = "Ok"
    /\ \E i, j, k \in Tasks :
        /\ tout[i] = "nopath"
        /\ tout[j] \in {"status", "transport", "body", "writefail"}
        /\ tout[k] = "written"
        /\ j < k

PageFailed == \E r \in 1..Len(requests) : ~requests[r].ok

\* C7: when a page request fails, all_posts returns Err, which carries no
\* post list, and do_download returns it with no metadata file written and
\* no attachment GET issued.
C7_EnumerationErrorAborts ==
    PageFailed =>
        /\ ret.tag = "Err" /\ DOMAIN ret = {"tag", "kind"}
        /\ pc = "idle" /\ result = "EnumError"
        /\ metaWrites = 0 /\ gets = 0 /\ files = <<>>

C7_Witness ==
    /\ PageFailed /\ Len(requests) >= 2 /\ result = "EnumError" /\ runNo >= 2
    /\ meta # {}

\* C8: a task that goes on to the GET with mkvs enabled has no sibling on
\* disk whose name is the canonical mp4/m4v name with the extension replaced
\* by mkv; and a task is satisfied by an mkv sibling only with mkvs enabled.
C8_MkvSiblingSatisfies ==
    \A i \in Tasks :
        /\ (tpc[i] = "get" /\ cli.mkvs /\ last_part(DestOf(i)) \in {mp4, m4v})
              => ~path_exists(transcoded(DestOf(i)))
        /\ tout[i] = "mkv" => cli.mkvs

\* C9: a step never removes or changes an existing metadata file, it adds
\* one only for an id that had none, and the body of the post loop leaves the
\* post's metadata file in place.
C9_MetadataWrittenOnce ==
    [][/\ \A m \in meta : m \in meta'
       /\ \A m \in meta' \ meta : \A n \in meta : n[1] # m[1]
       /\ (pc = "posts" /\ idx' = idx + 1)
             => \E m \in meta' : m[1] = posts[idx].id]_vars

C9_Witness ==
    /\ runNo >= 2 /\ pc = "batch"
    /\ \E m \in meta : \E k \in 1..Len(posts) :
        /\ posts[k].id = m[1]
        /\ is_some(m[2])
        /\ unwrap(m[2]).title # posts[k].title

Occ(q, x) == Cardinality({i \in 1..Len(q) : q[i] = x})

\* the tasks due for attachment a of post p
Due(p, a) ==
    (IF is_some(p.file.name) /\ is_some(p.file.path) /\ p.file = a THEN 1 ELSE 0)
      + (IF is_some(p.attachments) /\ a \in ToSet(unwrap(p.attachments)) THEN 1 ELSE 0)

AttachmentsOf(p) ==
    {p.file} \cup (IF is_some(p.attachments) THEN ToSet(unwrap(p.attachments)) ELSE {})

\* C10: the scheduled tasks are, for every post processed so far, the primary
\* attachment iff its name and path are both present, and one task for every
\* element of the additional-attachments set; and nothing else.
C10_ExtractedTasks ==
    LET done == SubSeq(posts, 1, idx - 1)
    IN  /\ \A p \in ToSet(posts) : \A a \in AttachmentsOf(p) :
               Occ(files, <<p, a>>) = Occ(done, p) * Due(p, a)
        /\ \A i \in Tasks :
               files[i][1] \in ToSet(done) /\ files[i][2] \in AttachmentsOf(files[i][1])

C10_Witness ==
    /\ pc = "batch"
    /\ \E i \in Tasks :
        /\ is_none(files[i][2].name)
        /\ is_some(files[i][1].file.name)
        /\ is_none(files[i][1].file.path)

\* the records of the upstream's pages, as the API sends them
UpstreamRecords == UNION {ToSet(upstream[k]) : k \in 1..Len(upstream)}

\* the tasks pushed for entry a of the additional attachments of post p
AdditionalTasks(p, a) ==
    Occ(files, <<p, a>>)
        - (IF is_some(p.file.name) /\ is_some(p.file.path) /\ p.file = a
           THEN Occ(SubSeq(posts, 1, idx - 1), p) ELSE 0)

\* C11: the additional attachments of a fetched post are pairwise distinct in
\* (name, path), and every entry of the upstream record's attachments array,
\* however often the array repeats it, has exactly one task per processing of
\* the post.
C11_AttachmentDedup ==
    /\ \A k \in 1..Len(posts) :
           is_some(posts[k].attachments) =>
               \A m, n \in 1..Len(unwrap(posts[k].attachments)) :
                   m # n => unwrap(posts[k].attachments)[m] # unwrap(posts[k].attachments)[n]
    /\ pc \in {"posts", "batch"} =>
           \A k \in 1..(idx - 1) : \A r \in UpstreamRecords :
               (r.id = posts[k].id /\ is_some(r.attachments)) =>
                   \A a \in ToSet(unwrap(r.attachments)) :
                       AdditionalTasks(posts[k], a) = Occ(SubSeq(posts, 1, idx - 1), posts[k])

C11_Witness ==
    /\ pc = "batch"
    /\ \E r \in {u \in UpstreamRecords : is_some(u.attachments)} :
       \E n \in 1..Len(unwrap(r.attachments)) : \E m \in 1..(n - 1) :
        /\ unwrap(r.attachments)[m] = unwrap(r.attachments)[n]
        /\ \E i \in Tasks :
            /\ files[i][1].id = r.id
            /\ files[i][2] = unwrap(r.attachments)[m]
            /\ tout[i] = "written"

\* the closure's filter leaves task i out: a filter is set and the attachment
\* has a name that does not contain it
FilterExcludes(i) ==
    /\ is_some(cli.filename)
    /\ is_some(files[i][2].name)
    /\ \A k \in 0..(Len(unwrap(files[i][2].name)) - Len(unwrap(cli.filename))) :
           SubSeq(unwrap(files[i][2].name), k + 1, k + Len(unwrap(cli.filename)))
               # unwrap(cli.filename)

\* the step of task i is the error return of the name/path validation: the
\* task ends with that error, the closure logs it with the attachment, and no
\* GET is issued and no file or directory changes
MalformedStep(i) ==
    /\ tpc'[i] = "done"
    /\ tout'[i] \in {"noname", "nopath"}
    /\ \E l \in 1..Len(tlog'[i]) : tlog'[i][l].attachment = Some(files[i][2])
    /\ tresp'[i] = None
    /\ gets' = gets
    /\ UNCHANGED fsVars

\* C12 as claimed: every task whose attachment lacks a name or a path ends,
\* in the one step it takes, with an error that is logged, without a GET and
\* without a change of the filesystem.
C12_MalformedReported ==
    [][pc = "batch" =>
          \A i \in Tasks : (~HasDest(i) /\ tpc'[i] # tpc[i]) => MalformedStep(i)]_vars

\* C12 as amended: the same for every such task that the name filter does not
\* leave out.
C12_MalformedReportedUnlessFiltered ==
    [][pc = "batch" =>
          \A i \in Tasks :
              (~HasDest(i) /\ ~FilterExcludes(i) /\ tpc'[i] # tpc[i]) => MalformedStep(i)]_vars

C12_Witness ==
    /\ pc = "batch"
    /\ \E i, j \in Tasks :
        /\ is_some(files[i][2].name) /\ is_none(files[i][2].path)
        /\ tout[i] = "nopath"
        /\ tlog[i] # <<>>
        /\ tout[j] = "written"

\* the pairs do_update has called do_download for
SyncedPairs == {<<synced[k].creator, synced[k].service>> : k \in 1..Len(synced)}

\* the creator/service directories that pass the filters; a filter is set when
\* the option's value is not the empty string
MatchingPairs ==
    {p \in DirPairs :
        /\ update_opts.creator \notin {None, Some("")} => p[1] = unwrap(update_opts.creator)
        /\ update_opts.service \notin {None, Some("")} => p[2] = unwrap(update_opts.service)}

\* C13: do_update calls do_download only for creator/service directories that
\* pass the filters, for each at most once, and when it returns Ok it has
\* called it for every one of them; with a/serviceX, a/serviceY, b/serviceX and
\* creator filter a these are a/serviceX and a/serviceY.
C13_TreeWalkerFilter ==
    /\ SyncedPairs \subseteq MatchingPairs
    /\ \A j, k \in 1..Len(synced) :
           j # k => <<synced[j].creator, synced[j].service>>
                       # <<synced[k].creator, synced[k].service>>
    /\ upc = "done" => SyncedPairs = MatchingPairs
    /\ (upc = "done" /\ tree = ExampleTree
            /\ update_opts = [creator |-> Some("a"), service |-> None])
          => SyncedPairs = {<<"a", "serviceX">>, <<"a", "serviceY">>}

C13_Witness ==
    /\ upc = "done"
    /\ tree = ExampleTree
    /\ update_opts = [creator |-> Some("a"), service |-> None]
    /\ SyncedPairs = {<<"a", "serviceX">>, <<"a", "serviceY">>}
    /\ \A k \in 1..Len(synced) : synced[k].result = "Ok"
    /\ \E p \in DirPairs : disk[p].fs # {}

\* C14: with a filename filter set, a task whose attachment name does not
\* contain the filter takes one step, which ends it without an error, without
\* a log line, without a GET and without a change of the filesystem.
C14_NameFilterExcludes ==
    [][pc = "batch" =>
          \A i \in Tasks :
              (FilterExcludes(i) /\ tpc'[i] # tpc[i]) =>
                  /\ tpc'[i] = "done"
                  /\ error_kind(tout'[i]) = "Ok"
                  /\ tlog'[i] = <<>>
                  /\ tresp'[i] = None
                  /\ gets' = gets
                  /\ UNCHANGED fsVars]_vars

C14_Witness ==
    /\ pc = "batch"
    /\ \E i \in Tasks :
        /\ FilterExcludes(i)
        /\ HasDest(i)
        /\ tpc[i] = "done"
        /\ ~path_exists(DestOf(i))

\* C15: the requests of one all_posts call carry the offsets 0, 50, 100, ...:
\* the i-th request, counting from 0, carries 50 * i, whatever the number of
\* posts the pages before it returned.
C15_OffsetAdvancesByPageSize ==
    \A r \in 1..Len(requests) : requests[r].offset = 50 * (r - 1)

C15_Witness ==
    /\ ret.tag = "Ok"
    /\ Len(requests) = 4
    /\ requests[4].offset = 150
    /\ Len(upstream[1]) = 1 /\ Len(upstream[2]) = 2

\* the segment get_mkv_filename is claimed to give for a segment
Reencoded(seg) == IF seg \in {<<"m", "p", "4">>, <<"m", "4", "v">>} THEN <<"m", "k", "v">> ELSE seg

test_mp4 == <<"t", "e", "s", "t", ".", "m", "p", "4">>
test_mkv == <<"t", "e", "s", "t", ".", "m", "k", "v">>

C17_FailuresReported ==
    \A i \in Tasks :
        (tpc[i] = "done"
            /\ tout[i] \in {"noname", "nopath", "transport", "body", "mkdirfail",
                            "writefail", "status"})
          => \E l \in 1..Len(tlog[i]) : tlog[i][l].attachment = Some(files[i][2])

\* the steps of a task in the order claimed but for the directory: the GET
\* is sent only after the existence check found nothing, and only a task
\* that has its response writes the file
CheckGetWriteOrder(i) ==
    /\ (tpc'[i] = "get" /\ tpc[i] # "get") => tpc[i] \in {"check", "mkv"}
    /\ tresp'[i] # tresp[i] => (tpc[i] = "get" /\ is_none(tresp[i]))
    /\ (tpc'[i] = "write" /\ tpc[i] # "write") => (tpc[i] = "get" /\ is_some(tresp'[i]))
    /\ (tpc[i] = "write" /\ tpc'[i] # "write") =>
           (is_some(tresp[i]) /\ (DestOf(i) \in fs' => "dl" \in dirs'))

C19_OtherExtensionNeedsCanonicalPath ==
    [][pc = "batch" =>
          \A i \in Tasks :
              (/\ HasDest(i)
               /\ tpc[i] # "done" /\ tpc'[i] = "done"
               /\ is_none(tresp'[i])
               /\ error_kind(tout'[i]) = "Ok"
               /\ ~FilterExcludes(i)
               /\ last_part(DestOf(i)) \notin {<<"m", "p", "4">>, <<"m", "4", "v">>})
                 => DestOf(i) \in fs]_vars

\* no task is in flight while all_posts fetches pages or the post loop runs,
\* and none is left in flight when do_download has returned
FetchesApart ==
    /\ pc \in {"enum", "posts", "idle"} => InFlight = {}
    /\ pc = "enum" => files = <<>>

\* C20 as claimed: the tasks in flight are never more than cli.threads, and
\* page fetches overlap no download.
C20_AtMostThreadsInFlight ==
    /\ Cardinality(InFlight) <= cli.threads
    /\ FetchesApart

\* C20 as amended: the tasks in flight are never more than cli.threads when
\* that is not 0, and never more than the number of logical CPUs when it is 0;
\* page fetches overlap no download.
C20_AtMostPoolSizeInFlight ==
    /\ cli.threads # 0 => Cardinality(InFlight) <= cli.threads
    /\ cli.threads = 0 => Cardinality(InFlight) <= NumCpus
    /\ FetchesApart

C20_Witness ==
    /\ pc = "batch"
    /\ cli.threads = 1
    /\ Cardinality(InFlight) = 1
    /\ \E i, j \in Tasks : tpc[i] = "pending" /\ tpc[j] = "get" /\ HasDest(i)

\* tasks i and j have the same published timestamp and attachment name
SameKey(i, j) ==
    /\ files[i][1].published = files[j][1].published
    /\ files[i][2].name = files[j][2].name

\* C21: once a task has written the file of a (published, name) key, the
\* existence check of every other task with that key ends the task as
\* satisfied without a GET, whatever its post id and server path.
C21_ResumeKeyIsPublishedAndName ==
    [][pc = "batch" =>
          \A i \in Tasks :
              (/\ HasDest(i)
               /\ tpc[i] = "check" /\ tpc'[i] # "check"
               /\ \E j \in Tasks \ {i} : HasDest(j) /\ SameKey(i, j) /\ tout[j] = "written")
                 => /\ tpc'[i] = "done"
                    /\ tout'[i] = "exists"
                    /\ tresp'[i] = None
                    /\ gets' = gets]_vars

C21_Witness ==
    /\ pc = "batch"
    /\ \E i, j \in Tasks :
        /\ SameKey(i, j)
        /\ files[i][1].id # files[j][1].id
        /\ attachment_path(files[i][2]) # attachment_path(files[j][2])
        /\ tout[j] = "written"
        /\ tout[i] = "exists"
        /\ is_none(tresp[i])

\* the entries that are not directories and that a walk that returned Ok has
\* come across: those of the root that pass the creator filter, and those of
\* the creator directories that pass it
SkippedNonDirs ==
    {e \in tree :
        /\ ~e.dir
        /\ update_opts.creator \notin {None, Some("")} => e.path[1] = unwrap(update_opts.creator)
        /\ Len(e.path) = 2 => Dir(<<e.path[1]>>) \in tree}

\* C22: do_update starts no sync for an entry that is not a directory, and
\* when it has returned Ok it has written a warning for every such entry it
\* came across, at the creator level and at the service level, and has
\* processed every matching pair.
C22_NonDirectoriesSkippedWithWarning ==
    /\ SyncedPairs \subseteq DirPairs
    /\ upc = "done" =>
        /\ \A e \in SkippedNonDirs : e.path \in warned
        /\ SyncedPairs = MatchingPairs

\* the items whose closure has made a client
WithClient == {i \in Tasks : is_some(tclient[i])}

\* C23: the client of a download task has a cookie jar and a session of its
\* own: its jar is neither the jar of the enumerating client nor the jar of
\* another task's client, its session, which it has when its GET is sent,
\* is neither the session of the enumerating client nor the session of
\* another task's client, and that session keeps its cookies in the task's
\* own jar.
C23_SessionIsolation ==
    \A i \in WithClient :
        LET c == unwrap(tclient[i])
        IN  /\ c.cookies # client.cookies
            /\ is_some(tresp[i]) => is_some(c.session)
            /\ is_some(c.session) =>
                /\ c.session # client.session
                /\ unwrap(c.session).cookie_provider = c.cookies
            /\ \A j \in WithClient \ {i} :
                /\ unwrap(tclient[j]).cookies # c.cookies
                /\ is_some(c.session) =>
                    /\ unwrap(tclient[j]).session # c.session
                    /\ unwrap(c.session).cookie_provider # unwrap(tclient[j]).cookies

C23_Witness ==
    /\ pc = "batch"
    /\ \E i, j \in WithClient :
        /\ i # j
        /\ tpc[i] = "write" /\ tpc[j] = "write"
        /\ is_some(unwrap(tclient[i]).session)
        /\ is_some(unwrap(tclient[j]).session)

\* the GET of item i was answered with a success status and its whole body
GotData(i) ==
    /\ is_some(tresp[i])
    /\ is_some(unwrap(tresp[i]).status)
    /\ unwrap(unwrap(tresp[i]).status) \in 200..299
    /\ unwrap(tresp[i]).body

\* the step ends the GET of item i with a failure
GetFails(i) == tpc[i] = "get" /\ tpc'[i] \in {"done", "bail"}

\* a task whose GET failed changes nothing on the filesystem, and a file that
\* appears during a batch is the destination of a task that got its data
FailedGetLeavesNothing ==
    pc = "batch" =>
        /\ \A i \in Tasks :
               (GetFails(i) \/ (tpc[i] = "bail" /\ tpc'[i] = "done"))
                   => UNCHANGED <<fs, partial, dirs, meta>>
        /\ \A name \in fs' \ fs :
               \E i \in Tasks : HasDest(i) /\ DestOf(i) = name /\ GotData(i)

\* the GET of item i failed
GetFailed(i) == tout[i] \in {"status", "body", "transport", "s429"}

\* the files that satisfy the existence checks of item i: its destination,
\* and with --mkvs the destination's .mkv name
SatisfiedBy(i) ==
    {DestOf(i)} \cup (IF cli.mkvs THEN {get_mkv_filename(DestOf(i))} ELSE {})

\* another task of the batch got its data and went on to write a file that
\* satisfies item i
FetchedFor(i) ==
    \E j \in Tasks \ {i} :
        /\ HasDest(j) /\ DestOf(j) \in SatisfiedBy(i)
        /\ GotData(j) /\ tout[j] \in {"written", "writefail"}

\* do_download returns from the batch
BatchEnds == pc = "batch" /\ pc' = "idle"

SyncFailures == {"EnumError", "RateLimited"}

\* C25: when the do_download that do_update called for a pair returns an
\* enumeration error or RateLimited, do_update records the failure and goes
\* on with the same loops, nothing of the walk lost; it never returns an error
\* because of a sync, and when it returns Ok it has called do_download for
\* every matching pair.
C25_FailedSyncConfined ==
    [][/\ (upc = "call" /\ upc' # "call" /\ result \in SyncFailures)
            => /\ upc' = "services"
               /\ UNCHANGED <<services, creators, creator_name>>
               /\ synced'[Len(synced)].result = result
       /\ upc' = "err" => upc \in {"none", "creators", "services", "err"}
       /\ upc' = "done" => SyncedPairs' = MatchingPairs]_vars

C25_Witness ==
    /\ upc = "done"
    /\ \E j, k \in 1..Len(synced) :
        /\ j < k
        /\ synced[j].result = "RateLimited"
        /\ synced[k].result = "Ok"
        /\ disk[<<synced[k].creator, synced[k].service>>].fs # {}
    /\ \E j \in 1..Len(synced) : synced[j].result = "EnumError"

====
